---- MODULE Spec2Model ----
(***************************************************************************)
(* Model of src/miller_rabin.c: the four modular primitives mod_add,       *)
(* mod_sub, mod_mul, mod_pow and the deterministic Miller-Rabin test       *)
(* miller_rabin, over unsigned machine words.                              *)
(*                                                                         *)
(* uint64_t is scaled down to a word of `bits` bits; every addition and    *)
(* subtraction of the source is taken modulo 2^bits, as C does for         *)
(* unsigned operands.  Two families of runs are modelled:                  *)
(*   SpecArith  one call of one primitive on arbitrary words (m >= 1);     *)
(*   SpecMR     one call of miller_rabin(n), statement by statement,       *)
(*              with the loops of mod_pow and mod_mul unrolled as steps.   *)
(***************************************************************************)
EXTENDS Integers, Naturals, Sequences, FiniteSets, TLC

\* Word width of the runs of the primitives.
ArithBits == 4

\* Word width of the runs of miller_rabin (561 needs 10 bits).
PrimeBits == 10

VARIABLES
    bits,       \* width of the unsigned word in this run (64 in the source)
    pc,         \* position of the running call
    \* --- one call of a primitive ---
    op,         \* which primitive is called
    arg_a, arg_b, arg_m,   \* its arguments a, b, m
    ret,        \* its return value
    ret_ok,     \* TRUE iff no intermediate + or - left the word range
    \* --- miller_rabin(n) ---
    n,          \* the argument
    r, d,       \* decomposition n-1 = d * 2^r
    i,          \* index of the base loop
    x,          \* a_i^d mod n and its successive squares
    j,          \* counter of the inner squaring loop
    composite,  \* the flag of line 131
    result,     \* the returned verdict
    pw,         \* locals a, b, r of the running mod_pow
    mm,         \* locals a, b, r of the running mod_mul
    mm_ret,     \* where the running mod_mul returns to
    tested      \* the bases handed to mod_pow so far, in call order

vars == <<bits, pc, op, arg_a, arg_b, arg_m, ret, ret_ok,
          n, r, d, i, x, j, composite, result, pw, mm, mm_ret, tested>>

arithVars == <<op, arg_a, arg_b, arg_m, ret, ret_ok>>
mrVars    == <<n, r, d, i, x, j, composite, result, pw, mm, mm_ret, tested>>

----------------------------------------------------------------------------
(* Unsigned words *)

\* 2^bits: one more than the largest word.
TwoW == 2 ^ bits

Word == 0 .. (TwoW - 1)

\* The word an exact integer result is stored as (unsigned wrap-around).
Wrap(v) == v % TwoW

\* TRUE iff the exact result of an addition or subtraction is a word.
InRange(v) == v >= 0 /\ v < TwoW

----------------------------------------------------------------------------
(* mod_add, mod_sub: value and whether an intermediate left the range *)

\* A plausible slip: the sum is formed directly and reduced afterwards.
mod_add_direct(a, b, m) ==
    [val |-> Wrap(a + b) % m, ok |-> InRange(a + b)]

mod_add_eval(a, b, m) ==
    LET mb == m - b
    IN  IF a >= Wrap(mb)
        THEN [val |-> Wrap(a - Wrap(mb)) % m,
              ok  |-> InRange(mb) /\ InRange(a - Wrap(mb))]
        ELSE [val |-> Wrap(a + b) % m,
              ok  |-> InRange(mb) /\ InRange(a + b)]

mod_add(a, b, m) == mod_add_eval(a, b, m).val

\* A plausible slip: m is not added back when a < b.
mod_sub_noadd(a, b, m) ==
    IF a < b
    THEN [val |-> Wrap(b - a) % m, ok |-> TRUE]
    ELSE [val |-> Wrap(a - b) % m, ok |-> InRange(a - b)]

mod_sub_eval(a, b, m) ==
    IF a < b
    THEN LET s == a + m
             t == Wrap(s) - b
         IN  [val |-> Wrap(t) % m, ok |-> InRange(s) /\ InRange(t)]
    ELSE [val |-> Wrap(a - b) % m, ok |-> InRange(a - b)]

mod_sub(a, b, m) == mod_sub_eval(a, b, m).val

----------------------------------------------------------------------------
(* mod_mul: double-and-add *)

\* A plausible slip: a is not reduced modulo m on entry.
mod_mul_entry_raw(a, b, m) == [a |-> a, b |-> b, r |-> 0, ok |-> TRUE]

\* The locals of mod_mul on entry.
mod_mul_entry(a, b, m) == [a |-> a % m, b |-> b, r |-> 0, ok |-> TRUE]

\* A plausible slip: b is never halved.
mod_mul_step_nohalve(f, m) ==
    LET add == mod_add_eval(f.r, f.a, m)
        dbl == mod_add_eval(f.a, f.a, m)
    IN  [a  |-> dbl.val,
         b  |-> f.b,
         r  |-> IF f.b % 2 = 1 THEN add.val ELSE f.r,
         ok |-> f.ok /\ dbl.ok /\ (f.b % 2 = 1 => add.ok)]

\* One pass through the body of the while loop of mod_mul.
mod_mul_step(f, m) ==
    LET add == mod_add_eval(f.r, f.a, m)
        dbl == mod_add_eval(f.a, f.a, m)
    IN  [a  |-> dbl.val,
         b  |-> f.b \div 2,
         r  |-> IF f.b % 2 = 1 THEN add.val ELSE f.r,
         ok |-> f.ok /\ dbl.ok /\ (f.b % 2 = 1 => add.ok)]

RECURSIVE mod_mul_loop(_, _)
mod_mul_loop(f, m) ==
    IF f.b > 0 THEN mod_mul_loop(mod_mul_step(f, m), m)
    ELSE [val |-> f.r, ok |-> f.ok]

mod_mul_eval(a, b, m) == mod_mul_loop(mod_mul_entry(a, b, m), m)

mod_mul(a, b, m) == mod_mul_eval(a, b, m).val

----------------------------------------------------------------------------
(* mod_pow: square-and-multiply *)

\* The locals of mod_pow on entry.
mod_pow_entry(a, b, m) == [a |-> a % m, b |-> b, r |-> 1, ok |-> TRUE]

\* A plausible slip: a is doubled instead of squared.
mod_pow_step_double(f, m) ==
    LET mul == mod_mul_eval(f.r, f.a, m)
        sq  == mod_mul_eval(f.a, 2, m)
    IN  [a  |-> sq.val,
         b  |-> f.b \div 2,
         r  |-> IF f.b % 2 = 1 THEN mul.val ELSE f.r,
         ok |-> f.ok /\ sq.ok /\ (f.b % 2 = 1 => mul.ok)]

\* One pass through the body of the while loop of mod_pow.
mod_pow_step(f, m) ==
    LET mul == mod_mul_eval(f.r, f.a, m)
        sq  == mod_mul_eval(f.a, f.a, m)
    IN  [a  |-> sq.val,
         b  |-> f.b \div 2,
         r  |-> IF f.b % 2 = 1 THEN mul.val ELSE f.r,
         ok |-> f.ok /\ sq.ok /\ (f.b % 2 = 1 => mul.ok)]

RECURSIVE mod_pow_loop(_, _)
mod_pow_loop(f, m) ==
    IF f.b > 0 THEN mod_pow_loop(mod_pow_step(f, m), m)
    ELSE [val |-> f.r, ok |-> f.ok]

mod_pow_eval(a, b, m) == mod_pow_loop(mod_pow_entry(a, b, m), m)

mod_pow(a, b, m) == mod_pow_eval(a, b, m).val

----------------------------------------------------------------------------
(* One call of one primitive *)

IdleMR ==
    /\ n = 0 /\ r = 0 /\ d = 0 /\ i = 0 /\ x = 0 /\ j = 0
    /\ composite = 0 /\ result = 0
    /\ pw = mod_pow_entry(0, 0, 1)
    /\ mm = mod_mul_entry(0, 0, 1)
    /\ mm_ret = "none"
    /\ tested = << >>

\* Any words a and b and any modulus m >= 1 (m = 0 divides by zero).
InitArith ==
    /\ bits = ArithBits
    /\ pc = "call"
    /\ op = "none"
    /\ arg_a \in Word
    /\ arg_b \in Word
    /\ arg_m \in 1 .. (TwoW - 1)
    /\ ret = 0
    /\ ret_ok = TRUE
    /\ IdleMR

Returns(name, e) ==
    /\ pc = "call"
    /\ pc' = "ret"
    /\ op' = name
    /\ ret' = e.val
    /\ ret_ok' = e.ok
    /\ UNCHANGED <<bits, arg_a, arg_b, arg_m>>
    /\ UNCHANGED mrVars

Call_mod_add == Returns("mod_add", mod_add_eval(arg_a, arg_b, arg_m))

Call_mod_sub == Returns("mod_sub", mod_sub_eval(arg_a, arg_b, arg_m))

Call_mod_mul == Returns("mod_mul", mod_mul_eval(arg_a, arg_b, arg_m))

Call_mod_pow == Returns("mod_pow", mod_pow_eval(arg_a, arg_b, arg_m))

NextArith ==
    \/ Call_mod_add
    \/ Call_mod_sub
    \/ Call_mod_mul
    \/ Call_mod_pow

SpecArith == InitArith /\ [][NextArith]_vars

----------------------------------------------------------------------------
(* miller_rabin(n), statement by statement *)

BASELEN == 12

\* The array a[BASELEN] of the source (its name is taken by the parameters).
a_bases == <<2, 3, 5, 7, 11, 13, 17, 19, 23, 29, 31, 37>>

IdleArith ==
    /\ op = "none" /\ arg_a = 0 /\ arg_b = 0 /\ arg_m = 1
    /\ ret = 0 /\ ret_ok = TRUE

InitMR ==
    /\ bits = PrimeBits
    /\ pc = "entry"
    /\ n \in Word
    /\ r = 0 /\ d = 0 /\ i = 0 /\ x = 0 /\ j = 0
    /\ composite = 0 /\ result = 0
    /\ pw = mod_pow_entry(0, 0, 1)
    /\ mm = mod_mul_entry(0, 0, 1)
    /\ mm_ret = "none"
    /\ tested = << >>
    /\ IdleArith

\* What every step of miller_rabin leaves alone.
Frame == UNCHANGED <<bits, n>> /\ UNCHANGED arithVars

\* Lines 110-112: the three early returns.
EarlyReturn ==
    /\ pc = "entry"
    /\ n < 2 \/ n = 2 \/ n = 3 \/ n % 2 = 0
    /\ result' = IF n < 2 THEN 0 ELSE IF n = 2 \/ n = 3 THEN 1 ELSE 0
    /\ pc' = "done"
    /\ UNCHANGED <<r, d, i, x, j, composite, pw, mm, mm_ret, tested>>
    /\ Frame

\* Lines 115-116: r = 0, d = n - 1.
StartDecomp ==
    /\ pc = "entry"
    /\ ~(n < 2 \/ n = 2 \/ n = 3 \/ n % 2 = 0)
    /\ r' = 0
    /\ d' = Wrap(n - 1)
    /\ pc' = "decomp"
    /\ UNCHANGED <<i, x, j, composite, result, pw, mm, mm_ret, tested>>
    /\ Frame

\* A plausible slip: the halvings are not counted.
DecompStep_nocount ==
    /\ pc = "decomp"
    /\ d % 2 = 0
    /\ d' = d \div 2
    /\ r' = r
    /\ UNCHANGED <<pc, i, x, j, composite, result, pw, mm, mm_ret, tested>>
    /\ Frame

\* Lines 117-120: one pass of the decomposition loop.
DecompStep ==
    /\ pc = "decomp"
    /\ d % 2 = 0
    /\ d' = d \div 2
    /\ r' = Wrap(r + 1)
    /\ UNCHANGED <<pc, i, x, j, composite, result, pw, mm, mm_ret, tested>>
    /\ Frame

\* Line 117 false, line 123: i = 0.
DecompExit ==
    /\ pc = "decomp"
    /\ d % 2 # 0
    /\ i' = 0
    /\ pc' = "base"
    /\ UNCHANGED <<r, d, x, j, composite, result, pw, mm, mm_ret, tested>>
    /\ Frame

\* A plausible slip: the bound lets the base n through.
BaseOutOfRange_n(a_i, nn) == a_i > nn

\* Line 125: the base exceeds n - 2.
BaseOutOfRange(a_i, nn) == a_i > Wrap(nn - 2)

\* Line 123 false, line 141: all bases passed.
BaseLoopEnd ==
    /\ pc = "base"
    /\ ~(i < BASELEN)
    /\ result' = 1
    /\ pc' = "done"
    /\ UNCHANGED <<r, d, i, x, j, composite, pw, mm, mm_ret, tested>>
    /\ Frame

\* Line 125 true: break, then line 141.
BaseBreak ==
    /\ pc = "base"
    /\ i < BASELEN
    /\ BaseOutOfRange(a_bases[i + 1], n)
    /\ result' = 1
    /\ pc' = "done"
    /\ UNCHANGED <<r, d, i, x, j, composite, pw, mm, mm_ret, tested>>
    /\ Frame

\* Line 127: call mod_pow(a_i, d, n).
BaseCallPow ==
    /\ pc = "base"
    /\ i < BASELEN
    /\ ~BaseOutOfRange(a_bases[i + 1], n)
    /\ tested' = Append(tested, a_bases[i + 1])
    /\ pw' = mod_pow_entry(a_bases[i + 1], d, n)
    /\ pc' = "pow_loop"
    /\ UNCHANGED <<r, d, i, x, j, composite, result, mm, mm_ret>>
    /\ Frame

\* Lines 81-83: b > 0 and b odd, call mod_mul(r, a, m).
PowMulCall ==
    /\ pc = "pow_loop"
    /\ pw.b > 0
    /\ pw.b % 2 = 1
    /\ mm' = mod_mul_entry(pw.r, pw.a, n)
    /\ mm_ret' = "pow_r"
    /\ pc' = "mul_loop"
    /\ UNCHANGED <<r, d, i, x, j, composite, result, pw, tested>>
    /\ Frame

\* Lines 81-82: b > 0 and b even.
PowSkipMul ==
    /\ pc = "pow_loop"
    /\ pw.b > 0
    /\ pw.b % 2 # 1
    /\ pc' = "pow_sq"
    /\ UNCHANGED <<r, d, i, x, j, composite, result, pw, mm, mm_ret, tested>>
    /\ Frame

\* Line 83: r = the value mod_mul returned.
PowMulRet ==
    /\ pc = "pow_r"
    /\ pw' = [pw EXCEPT !.r = mm.r, !.ok = pw.ok /\ mm.ok]
    /\ pc' = "pow_sq"
    /\ UNCHANGED <<r, d, i, x, j, composite, result, mm, mm_ret, tested>>
    /\ Frame

\* Lines 85-86: b >>= 1, call mod_mul(a, a, m).
PowSquareCall ==
    /\ pc = "pow_sq"
    /\ pw' = [pw EXCEPT !.b = pw.b \div 2]
    /\ mm' = mod_mul_entry(pw.a, pw.a, n)
    /\ mm_ret' = "pow_a"
    /\ pc' = "mul_loop"
    /\ UNCHANGED <<r, d, i, x, j, composite, result, tested>>
    /\ Frame

\* Line 86: a = the value mod_mul returned.
PowSquareRet ==
    /\ pc = "pow_a"
    /\ pw' = [pw EXCEPT !.a = mm.r, !.ok = pw.ok /\ mm.ok]
    /\ pc' = "pow_loop"
    /\ UNCHANGED <<r, d, i, x, j, composite, result, mm, mm_ret, tested>>
    /\ Frame

\* Lines 81 false, 88, 127: x = the value mod_pow returned.
PowRet ==
    /\ pc = "pow_loop"
    /\ ~(pw.b > 0)
    /\ x' = pw.r
    /\ pc' = "check"
    /\ UNCHANGED <<r, d, i, j, composite, result, pw, mm, mm_ret, tested>>
    /\ Frame

\* Lines 55-61: one pass of the loop of the running mod_mul.
MulStep ==
    /\ pc = "mul_loop"
    /\ mm.b > 0
    /\ mm' = mod_mul_step(mm, n)
    /\ UNCHANGED <<pc, r, d, i, x, j, composite, result, pw, mm_ret, tested>>
    /\ Frame

\* Lines 55 false, 62: return r to the caller.
MulRet ==
    /\ pc = "mul_loop"
    /\ ~(mm.b > 0)
    /\ pc' = mm_ret
    /\ UNCHANGED <<r, d, i, x, j, composite, result, pw, mm, mm_ret, tested>>
    /\ Frame

\* Line 128 true: continue with the next base.
CheckContinue ==
    /\ pc = "check"
    /\ x = 1 \/ x = Wrap(n - 1)
    /\ i' = i + 1
    /\ pc' = "base"
    /\ UNCHANGED <<r, d, x, j, composite, result, pw, mm, mm_ret, tested>>
    /\ Frame

\* Line 128 false, lines 131-132: composite = 1, j = 0.
CheckStartInner ==
    /\ pc = "check"
    /\ ~(x = 1 \/ x = Wrap(n - 1))
    /\ composite' = 1
    /\ j' = 0
    /\ pc' = "inner"
    /\ UNCHANGED <<r, d, i, x, result, pw, mm, mm_ret, tested>>
    /\ Frame

\* Lines 132-133: j < r - 1, call mod_mul(x, x, n).
InnerCallMul ==
    /\ pc = "inner"
    /\ j < Wrap(r - 1)
    /\ mm' = mod_mul_entry(x, x, n)
    /\ mm_ret' = "inner_ret"
    /\ pc' = "mul_loop"
    /\ UNCHANGED <<r, d, i, x, j, composite, result, pw, tested>>
    /\ Frame

\* Line 132 false: the inner loop ran out.
InnerExit ==
    /\ pc = "inner"
    /\ ~(j < Wrap(r - 1))
    /\ pc' = "verdict"
    /\ UNCHANGED <<r, d, i, x, j, composite, result, pw, mm, mm_ret, tested>>
    /\ Frame

\* Lines 133-137: x = x^2 mod n is n - 1: composite = 0, break.
InnerBreak ==
    /\ pc = "inner_ret"
    /\ mm.r = Wrap(n - 1)
    /\ x' = mm.r
    /\ composite' = 0
    /\ pc' = "verdict"
    /\ UNCHANGED <<r, d, i, j, result, pw, mm, mm_ret, tested>>
    /\ Frame

\* Lines 133-134, 132: x = x^2 mod n is not n - 1: j++.
InnerNext ==
    /\ pc = "inner_ret"
    /\ mm.r # Wrap(n - 1)
    /\ x' = mm.r
    /\ j' = Wrap(j + 1)
    /\ pc' = "inner"
    /\ UNCHANGED <<r, d, i, composite, result, pw, mm, mm_ret, tested>>
    /\ Frame

\* Line 139 true: return 0.
ReturnComposite ==
    /\ pc = "verdict"
    /\ composite # 0
    /\ result' = 0
    /\ pc' = "done"
    /\ UNCHANGED <<r, d, i, x, j, composite, pw, mm, mm_ret, tested>>
    /\ Frame

\* Line 139 false, line 123: i++.
NextBase ==
    /\ pc = "verdict"
    /\ composite = 0
    /\ i' = i + 1
    /\ pc' = "base"
    /\ UNCHANGED <<r, d, x, j, composite, result, pw, mm, mm_ret, tested>>
    /\ Frame

NextMR ==
    \/ EarlyReturn
    \/ StartDecomp
    \/ DecompStep
    \/ DecompExit
    \/ BaseLoopEnd
    \/ BaseBreak
    \/ BaseCallPow
    \/ PowMulCall
    \/ PowSkipMul
    \/ PowMulRet
    \/ PowSquareCall
    \/ PowSquareRet
    \/ PowRet
    \/ MulStep
    \/ MulRet
    \/ CheckContinue
    \/ CheckStartInner
    \/ InnerCallMul
    \/ InnerExit
    \/ InnerBreak
    \/ InnerNext
    \/ ReturnComposite
    \/ NextBase

SpecMR == InitMR /\ [][NextMR]_vars

\* miller_rabin is sequential code: a call that can take a step takes it.
FairSpecMR == InitMR /\ [][NextMR]_vars /\ WF_vars(NextMR)

----------------------------------------------------------------------------
(* Reference notions the properties compare the code against *)

\* k is a prime number.
IsPrime(k) == k >= 2 /\ \A q \in 2 .. (k - 1) : k % q # 0

\* Start from 1 and multiply by a modulo m, b times.
RECURSIVE NaivePow(_, _, _)
NaivePow(a, b, m) == IF b = 0 THEN 1 ELSE (NaivePow(a, b - 1, m) * a) % m

\* How many of the bases are at most k - 2.
BasesUpTo(k) == Cardinality({q \in 1 .. BASELEN : a_bases[q] <= k - 2})

\* The call went past the early returns: n is odd and at least 5.
PastEarlyReturns ==
    pc \notin {"entry", "decomp"} /\ n >= 5 /\ n % 2 = 1

----------------------------------------------------------------------------
(* Properties *)

\* C1: miller_rabin(n) returns 1 exactly when n is prime and 0 otherwise,
\* for every word n (0, 1, 2, 3, evens, odd composites such as 9 and 561,
\* small primes with few bases in range).
C1_VerdictIsPrimality ==
    pc = "done" => (result = 1 <=> IsPrime(n)) /\ result \in {0, 1}

\* C1 witness: the Carmichael number 561 has been rejected.
C1_Witness == pc = "done" /\ n = 561 /\ result = 0 /\ Len(tested) >= 1

\* C2: for m >= 1 the value returned by mod_add (a, b < m), mod_sub,
\* mod_mul and mod_pow (any a, b) lies in [0, m); this includes m = 1
\* and mod_pow with b = 0.
C2_ResultInRange ==
    (pc = "ret" /\ (op = "mod_add" => arg_a < arg_m /\ arg_b < arg_m))
        => ret \in 0 .. (arg_m - 1)

\* C3: mod_sub(a, b, m) is the non-negative residue of a - b modulo m for
\* any words a and b, reduced below m or not, and any m >= 1.
C3_SubIsResidue ==
    (pc = "ret" /\ op = "mod_sub") => ret = (arg_a - arg_b) % arg_m

\* C4: for m >= 1 and a, b < m no intermediate addition or subtraction
\* inside mod_add, mod_sub, mod_mul or mod_pow leaves the word range.
C4_NoIntermediateWrap ==
    (pc = "ret" /\ arg_a < arg_m /\ arg_b < arg_m) => ret_ok

\* C5: mod_mul(a, b, m) is exactly (a * b) mod m for any words a and b and
\* any m >= 1, also when a * b exceeds the word; mod_mul(a, 1, m) is a mod m
\* and mod_mul commutes for a, b < m.
C5_MulIsProduct ==
    (pc = "ret" /\ op = "mod_mul") =>
        /\ ret = (arg_a * arg_b) % arg_m
        /\ (arg_b = 1 => ret = arg_a % arg_m)
        /\ (arg_a < arg_m /\ arg_b < arg_m
                => ret = mod_mul(arg_b, arg_a, arg_m))

\* C5 witness: unreduced factors whose product does not fit the word.
C5_Witness ==
    /\ pc = "ret" /\ op = "mod_mul"
    /\ arg_a > arg_m /\ arg_b > arg_m
    /\ arg_a * arg_b >= TwoW
    /\ ret > 0

\* C6: for m > 1 mod_pow(a, b, m) equals the naive reference that multiplies
\* 1 by a modulo m exactly b times; mod_pow(a, 0, m) is 1.
C6_PowIsNaive ==
    (pc = "ret" /\ op = "mod_pow" /\ arg_m > 1) =>
        /\ ret = NaivePow(arg_a, arg_b, arg_m)
        /\ (arg_b = 0 => ret = 1)

\* C6 witness: a power with several multiplications and a non-trivial value.
C6_Witness ==
    /\ pc = "ret" /\ op = "mod_pow"
    /\ arg_m > 1 /\ arg_a > arg_m /\ arg_b >= 5
    /\ ret > 1

\* C7: for m >= 1 and a, b < m, mod_sub(mod_add(a, b, m), b, m) is a mod m,
\* also when a + b or a + m exceeds the word.
C7_AddSubRoundTrip ==
    (pc = "ret" /\ op = "mod_add" /\ arg_a < arg_m /\ arg_b < arg_m)
        => mod_sub(ret, arg_b, arg_m) = arg_a % arg_m

\* C7 witness: a + b exceeds the word, and so does the sum inside mod_sub.
C7_Witness ==
    /\ pc = "ret" /\ op = "mod_add"
    /\ arg_a < arg_m /\ arg_b < arg_m
    /\ arg_a + arg_b >= TwoW
    /\ ret < arg_b /\ ret + arg_m >= TwoW

\* C8: every call of miller_rabin terminates, all its loops and those of
\* the mod_pow and mod_mul calls it makes included, with verdict 0 or 1.
C8_Terminates == <>(pc = "done" /\ result \in {0, 1})

\* C8 witness: a call that went through all twelve bases, with an inner
\* squaring loop, has returned.
C8_Witness ==
    pc = "done" /\ Len(tested) = BASELEN /\ r >= 3 /\ result = 1

\* C9: for odd n >= 5 the bases go to mod_pow in the order of the table,
\* none above n - 2; the loop stops at the first base above n - 2, and a
\* call is rejected only by a base that was tested and witnessed
\* compositeness, so that otherwise the verdict is prime.
C9_BasesInOrderUntilBreak ==
    PastEarlyReturns =>
        /\ Len(tested) <= BASELEN
        /\ \A k \in 1 .. Len(tested) :
               tested[k] = a_bases[k] /\ tested[k] <= n - 2
        /\ (pc = "done" /\ result = 1 => Len(tested) = BasesUpTo(n))
        /\ (pc = "done" /\ result = 0 =>
               composite = 1 /\ Len(tested) = i + 1)
        /\ (pc = "done" => result \in {0, 1})

\* C9 witness: n = 7 was declared prime after bases 2, 3 and 5 only.
C9_Witness ==
    pc = "done" /\ n = 7 /\ tested = <<2, 3, 5>> /\ result = 1

\* C10: once the base loop is reached, d * 2^r = n - 1 with d odd and
\* r >= 1, r - 1 does not wrap, and the inner loop squares at most r - 1
\* times per base.
C10_Decomposition ==
    PastEarlyReturns =>
        /\ d * (2 ^ r) = n - 1
        /\ d % 2 = 1
        /\ r >= 1
        /\ Wrap(r - 1) = r - 1
        /\ j <= r - 1
        /\ (pc = "inner_ret" => j + 1 <= r - 1)

\* C10 witness: the last allowed squaring of an inner loop has just run.
C10_Witness ==
    PastEarlyReturns /\ pc = "inner_ret" /\ r >= 3 /\ j + 1 = r - 1

====
